---------------------------- MODULE Spec2Model ----------------------------
(***************************************************************************)
(* Verification model of the ATS Resume Tracker extension.                 *)
(*                                                                         *)
(* The module holds several independent sub-models, one specification      *)
(* each:                                                                   *)
(*   SpecDocx  DOCX paragraph patching and extraction (utils/docx)         *)
(*   SpecGen   resume and cover letter generation (popup JobAnalysis)      *)
(*   SpecGenFair  SpecGen with every request and storage read completing   *)
(*   SpecSync  cloud sync as the extension's handlers drive it             *)
(*   SpecSyncApi  the functions of firebase/sync.ts called directly        *)
(*   SpecWeb   the auto-saving editor of the web app                       *)
(*   SpecJobs  the jobs stored per URL                                     *)
(*   SpecPull  the pull of resumes and applications, field by field        *)
(***************************************************************************)
EXTENDS Integers, Sequences, FiniteSets, TLC

(***************************************************************************)
(* Bounds of the model.                                                    *)
(***************************************************************************)
\* w:t nodes in one document
MaxNodes == 3
\* w:p paragraphs in one document
MaxParas == 2
\* characters in the text of one original w:t node
MaxNodeLen == 2
\* characters in one updated paragraph text
MaxText == 3

VARIABLES
  \* ---- DOCX patching ----
  docxPc,             \* "input" | "patched" | "extracted"
  originalDocx,       \* the original document (word/document.xml as stored)
  updatedParagraphs,  \* the list handed to patchDocxWithParagraphs
  patchedDocx,        \* the document patchDocxWithParagraphs returns
  extracted           \* extractParagraphsFromDocxBase64 of the patched document

docxVars == <<docxPc, originalDocx, updatedParagraphs, patchedDocx, extracted>>

VARIABLES
  \* ---- JobAnalysis: generateOptimizedResume / generateCoverLetter ----
  genPc,                 \* position of the running generate function, "idle" if none
  resume,                \* the selected resume: isDocx, paragraphs (its text by paragraph)
  jobDescription,        \* job.description as its list of terms
  missingKeywords,       \* result.missingKeywords of the analysis
  generatingResume,      \* useState(false)
  generatingCover,       \* useState(false)
  rewriteOpen,           \* useState(false)
  rewriteType,           \* 'resume' | 'coverLetter'
  rewriteStatus,         \* 'idle' | 'generating' | 'typing' | 'done' | 'error' | 'cancelled'
  rewriteError,          \* useState('')
  rewriteFullText,       \* useState(''), a text as its list of lines
  rewriteDisplayedText,  \* useState('')
  generationAttempts,    \* useState(0)
  rewriteAbortRef,       \* "null" | "controller": rewriteAbortRef.current
  signalAborted,         \* the signal handed to the request in flight is aborted
  rewriteTimerRef,       \* the typewriter interval: running, its text, its position i
  closureRewriteError,   \* the render whose handler is running had a non-empty rewriteError
  cleaned,               \* local variable cleaned of the running function
  requests,              \* AI requests the running function has sent: kind, temperature
  invocations,           \* number of invocations of each generate function in the session
  jsonFailures           \* mergeParagraphsJson failures of the JSON stage of this run

genVars == <<genPc, resume, jobDescription, missingKeywords, generatingResume,
             generatingCover, rewriteOpen, rewriteType, rewriteStatus, rewriteError,
             rewriteFullText, rewriteDisplayedText, generationAttempts, rewriteAbortRef,
             signalAborted, rewriteTimerRef, closureRewriteError, cleaned, requests, invocations,
             jsonFailures>>

VARIABLES
  \* ---- cloud sync ----
  fbEnabled,     \* isFirebaseEnabled(): set by the build
  currentUser,   \* firebaseAuth.currentUser as its uid, NoUser if null
  accounts,      \* Firebase Auth accounts: uid -> "none" | "email" | "guest"
  storage,       \* chrome.storage.local: the five collections and cloudSync
  firestore,     \* Firestore: uid -> the documents under users/<uid>
  nextId,        \* records created so far per collection
  calls,         \* the calls of sync functions the last handler made
  handlerRuns,   \* handlers run in the session
  dashChange     \* the last status change made in the Dashboard while signed in

syncVars == <<fbEnabled, currentUser, accounts, storage, firestore, nextId, calls, handlerRuns,
              dashChange>>

VARIABLES
  \* ---- web editor ----
  webCloud,      \* the resume document in Firestore: name, parsedText
  webSelected,   \* selected: the document as of the last snapshot
  draftName,     \* useState('')
  draftText,     \* useState('')
  saveTimer,     \* the timeout of queueSave: pending, and the draftName and draftText its
                 \* callback closed over
  saveNote       \* useState('')

webVars == <<webCloud, webSelected, draftName, draftText, saveTimer, saveNote>>

VARIABLES
  \* ---- stored jobs ----
  jobs,          \* chrome.storage.local jobs: id, url
  idsGenerated,  \* ids generateId() has returned
  currentJob     \* the popup's currentJob, NoJob if null

jobVars == <<jobs, idsGenerated, currentJob>>

VARIABLES
  \* ---- the pull of resumes and applications ----
  localResumes,   \* chrome.storage.local resumes: id, name, content, isDefault
  cloudResumes,   \* users/<uid>/resumes: id, name, isDefault, chunks (its pdfChunks joined)
  localApps,      \* chrome.storage.local applications: id, status
  cloudApps,      \* users/<uid>/applications: id, status
  beforePull,     \* local resumes and applications as the last pull found them
  pullDone,       \* a pull completed and the cloud has not changed since
  webDefault      \* the resume last set as default in the web app, 0 if none

pullVars == <<localResumes, cloudResumes, localApps, cloudApps, beforePull, pullDone, webDefault>>

vars == <<docxVars, genVars, syncVars, webVars, jobVars, pullVars>>

(***************************************************************************)
(* Cloud sync (firebase/sync.ts).                                          *)
(*                                                                         *)
(* chrome.storage.local holds the five collections and the cloudSync key;  *)
(* Firestore holds, under users/<uid>, the documents of the five           *)
(* collections.  A record is its id, its value (the status of an           *)
(* application; one fixed value for the other collections) and, as a       *)
(* ghost field, the account that was signed in when it was created.        *)
(* A call of a sync function runs on a state st: storage, firestore, the   *)
(* auth state and the Firestore reads, Firestore writes and local storage   *)
(* writes counted since the handler began; it yields the state after it    *)
(* and the error it threw ("" = none).                                     *)
(***************************************************************************)
\* records created per collection
MaxPerColl == 1
\* handlers run in one session
MaxHandlerRuns == 7

\* the collections, in the order tryCloudPushAllFromLocal pushes them
Colls == <<"resumes", "optimizedResumes", "coverLetters", "applications", "jobs">>

CollSet == {Colls[i] : i \in 1..Len(Colls)}

Uids == {"A", "B"}

\* firebaseAuth.currentUser is null
NoUser == "none"

SignInRequired == "Cloud sync requires sign-in."

NotConfigured == "Firebase is not configured."

\* the statuses the Dashboard select offers
SelectStatuses == {"applied", "interviewing"}

\* chrome.storage.local without a cloudSync key
\* (the timestamps lastPushAt, lastPullAt and lastErrorAt are left out)
NoCloudSync == [written |-> FALSE, uid |-> NoUser, enabled |-> FALSE, lastError |-> ""]

EmptyStorage ==
  [resumes |-> <<>>, optimizedResumes |-> <<>>, coverLetters |-> <<>>,
   applications |-> <<>>, jobs |-> <<>>, cloudSync |-> NoCloudSync]

(***************************************************************************)
(* Each specification runs one sub-model; the variables of the others stay *)
(* in the states below.                                                    *)
(***************************************************************************)
NoTimer == [running |-> FALSE, text |-> <<>>, i |-> 0]

\* no status change made in the Dashboard
NoChange == [id |-> 0, status |-> ""]

\* currentJob is null
NoJob == [id |-> 0, url |-> ""]

\* no save queued
NoSave == [pending |-> FALSE, name |-> <<>>, text |-> <<>>]

\* extension freshly installed, nobody signed in
SyncIdle ==
  /\ fbEnabled = FALSE
  /\ currentUser = NoUser
  /\ accounts = [u \in Uids |-> "none"]
  /\ storage = EmptyStorage
  /\ firestore = [u \in Uids |-> {}]
  /\ nextId = [c \in CollSet |-> 0]
  /\ calls = <<>>
  /\ handlerRuns = 0
  /\ dashChange = NoChange

\* web app not open
WebIdle ==
  /\ webCloud = [name |-> <<>>, parsedText |-> <<>>]
  /\ webSelected = [name |-> <<>>, parsedText |-> <<>>]
  /\ draftName = <<>>
  /\ draftText = <<>>
  /\ saveTimer = NoSave
  /\ saveNote = ""

\* nothing stored, nothing pulled
PullIdle ==
  /\ localResumes = <<>>
  /\ cloudResumes = {}
  /\ localApps = <<>>
  /\ cloudApps = {}
  /\ beforePull = [resumes |-> <<>>, applications |-> <<>>]
  /\ pullDone = FALSE
  /\ webDefault = 0

\* no job stored
JobsIdle ==
  /\ jobs = <<>>
  /\ idsGenerated = 0
  /\ currentJob = NoJob

\* no document is being patched
DocxIdle ==
  /\ docxPc = "input"
  /\ originalDocx = [nodes |-> <<>>, paras |-> <<>>]
  /\ updatedParagraphs = <<>>
  /\ patchedDocx = [nodes |-> <<>>, paras |-> <<>>]
  /\ extracted = <<>>

\* JobAnalysis not mounted
GenIdle ==
  /\ genPc = "idle"
  /\ resume = [isDocx |-> FALSE, paragraphs |-> <<>>]
  /\ jobDescription = {}
  /\ missingKeywords = <<>>
  /\ generatingResume = FALSE
  /\ generatingCover = FALSE
  /\ rewriteOpen = FALSE
  /\ rewriteType = "resume"
  /\ rewriteStatus = "idle"
  /\ rewriteError = ""
  /\ rewriteFullText = <<>>
  /\ rewriteDisplayedText = <<>>
  /\ generationAttempts = 0
  /\ rewriteAbortRef = "null"
  /\ signalAborted = FALSE
  /\ rewriteTimerRef = NoTimer
  /\ closureRewriteError = FALSE
  /\ cleaned = <<>>
  /\ requests = <<>>
  /\ invocations = [resume |-> 0, coverLetter |-> 0]
  /\ jsonFailures = 0

(***************************************************************************)
(* Generic helpers.                                                        *)
(***************************************************************************)
Min(a, b) == IF a <= b THEN a ELSE b

Max(a, b) == IF a >= b THEN a ELSE b

\* All sequences over S of length 0..n
SeqsUpTo(S, n) == UNION {[1..k -> S] : k \in 0..n}

RECURSIVE Concat(_)
\* Array.prototype.join('') of a sequence of strings (strings are sequences
\* of one-character strings)
Concat(ss) == IF ss = <<>> THEN <<>> ELSE Head(ss) \o Concat(Tail(ss))

(***************************************************************************)
(* DOCX documents.                                                         *)
(*                                                                         *)
(* A parsed document is the list of its w:t elements in document order     *)
(* (their textContent) and the list of its w:p elements in document order, *)
(* each with the range of w:t elements that are its descendants            *)
(* (Element.getElementsByTagName returns all descendants, so the w:t of a  *)
(* paragraph nested in a text box also belong to the enclosing paragraph). *)
(* A paragraph without w:t has the empty range first = 1, last = 0.        *)
(* The stored document (word/document.xml) carries the texts escaped.      *)
(***************************************************************************)
NoRange == [first |-> 1, last |-> 0]

IsEmptyRange(r) == r.last < r.first

Ranges(n) == {NoRange} \cup {r \in [first : 1..n, last : 1..n] : r.first <= r.last}

\* document order of the w:p start tags: a later paragraph lies inside an
\* earlier one or wholly after it
WellNested(paras) ==
  \A i \in 1..Len(paras), j \in 1..Len(paras) :
    (i < j /\ ~IsEmptyRange(paras[i]) /\ ~IsEmptyRange(paras[j])) =>
      \/ (paras[j].first >= paras[i].first /\ paras[j].last <= paras[i].last)
      \/ paras[j].first > paras[i].last

\* the characters of updated texts: ordinary ones and the two the XML
\* serializer must escape
Alphabet == <<"a", "<", "b", "&", "c">>

Texts == {SubSeq(Alphabet, 1, n) : n \in 0..Min(MaxText, Len(Alphabet))}

OriginalTexts == {[i \in 1..n |-> "x"] : n \in 0..MaxNodeLen}

\* XMLSerializer: text content is written with & and < escaped
EscapeChar(c) ==
  IF c = "&" THEN <<"&", "a", "m", "p", ";">>
  ELSE IF c = "<" THEN <<"&", "l", "t", ";">>
  ELSE <<c>>

RECURSIVE EscapeXml(_)
EscapeXml(s) == IF s = <<>> THEN <<>> ELSE EscapeChar(Head(s)) \o EscapeXml(Tail(s))

RECURSIVE UnescapeXml(_)
\* DOMParser: entity references in text content are replaced by their character
UnescapeXml(s) ==
  IF s = <<>> THEN <<>>
  ELSE IF Len(s) >= 5 /\ SubSeq(s, 1, 5) = <<"&", "a", "m", "p", ";">>
    THEN <<"&">> \o UnescapeXml(SubSeq(s, 6, Len(s)))
  ELSE IF Len(s) >= 4 /\ SubSeq(s, 1, 4) = <<"&", "l", "t", ";">>
    THEN <<"<">> \o UnescapeXml(SubSeq(s, 5, Len(s)))
  ELSE <<Head(s)>> \o UnescapeXml(Tail(s))

\* parseXml(getDocXml(zip)): the DOM of the stored document
parseXml(stored) ==
  [nodes |-> [i \in 1..Len(stored.nodes) |-> UnescapeXml(stored.nodes[i])],
   paras |-> stored.paras]

\* zip.file('word/document.xml', serializeXml(doc))
serializeXml(doc) ==
  [nodes |-> [i \in 1..Len(doc.nodes) |-> EscapeXml(doc.nodes[i])],
   paras |-> doc.paras]

\* p.getElementsByTagName('w:t') as indexes into the document's w:t list
TNodes(p) == IF IsEmptyRange(p) THEN <<>> ELSE [k \in 1..(p.last - p.first + 1) |-> p.first + k - 1]

\* the original documents of the model
Docs(maxNodes) ==
  UNION {
    {[nodes |-> ns, paras |-> ps] :
        ns \in [1..n -> OriginalTexts],
        ps \in {q \in SeqsUpTo(Ranges(n), MaxParas) : WellNested(q)}} :
    n \in 0..maxNodes}

UpdatedLists == SeqsUpTo(Texts, MaxParas + 1)

\* extractParagraphsFromDocxBase64
extractParagraphsFromDocxBase64(stored) ==
  LET doc == parseXml(stored)
  IN [i \in 1..Len(doc.paras) |->
        Concat([k \in 1..Len(TNodes(doc.paras[i])) |-> doc.nodes[TNodes(doc.paras[i])[k]]])]

RECURSIVE DistributeLoop(_, _, _, _)
\* the for loop of distributeAcrossNodes from index i with the running
\* offset; yields the new textContent of nodes i..Len(lens)
DistributeLoop(text, lens, i, offset) ==
  IF i > Len(lens) THEN <<>>
  ELSE
    LET take == IF i = Len(lens) THEN Len(text) - offset
                ELSE Min(lens[i], Len(text) - offset)
        part == IF take > 0 THEN SubSeq(text, offset + 1, offset + take) ELSE <<>>
        next == offset + Max(0, take)
    IN IF next >= Len(text)
         THEN <<part>> \o [j \in 1..(Len(lens) - i) |-> <<>>]
         ELSE <<part>> \o DistributeLoop(text, lens, i + 1, next)

\* distributeAcrossNodes(text, nodes): the new textContent of each node,
\* given the current textContent of the nodes
distributeAcrossNodes(text, current) ==
  LET originalLens == [i \in 1..Len(current) |-> Len(current[i])]
      totalOriginal == Len(Concat(current))
  IN IF Len(current) = 0 THEN <<>>
     ELSE IF totalOriginal = 0
       THEN <<text>> \o [j \in 1..(Len(current) - 1) |-> <<>>]
     ELSE DistributeLoop(text, originalLens, 1, 0)

\* updatedParagraphs.slice(0, count), padded with '' up to count
Normalize(updated, count) ==
  [i \in 1..count |-> IF i <= Len(updated) THEN updated[i] ELSE <<>>]

RECURSIVE PatchLoop(_, _, _, _)
\* the for loop of patchDocxWithParagraphs over the paragraphs from i on
PatchLoop(nodes, paras, normalized, i) ==
  IF i > Len(paras) THEN nodes
  ELSE
    LET tNodes == TNodes(paras[i])
        parts == distributeAcrossNodes(normalized[i], [k \in 1..Len(tNodes) |-> nodes[tNodes[k]]])
        patched == [n \in 1..Len(nodes) |->
                      IF ~IsEmptyRange(paras[i]) /\ n >= paras[i].first /\ n <= paras[i].last
                        THEN parts[n - paras[i].first + 1]
                        ELSE nodes[n]]
    IN IF Len(tNodes) = 0
         THEN PatchLoop(nodes, paras, normalized, i + 1)
         ELSE PatchLoop(patched, paras, normalized, i + 1)

\* a patch that rebuilds the paragraph list from the updated texts and so
\* drops the paragraphs the list does not reach
patchDocxTruncating(stored, updated) ==
  LET doc == parseXml(stored)
      count == Min(Len(doc.paras), Len(updated))
      kept == SubSeq(doc.paras, 1, count)
  IN serializeXml([nodes |-> PatchLoop(doc.nodes, kept, Normalize(updated, count), 1),
                   paras |-> kept])

\* patchDocxWithParagraphs(originalDocxBase64, updatedParagraphs).base64
patchDocxWithParagraphs(stored, updated) ==
  LET doc == parseXml(stored)
      count == Len(doc.paras)
      normalized == Normalize(updated, count)
  IN serializeXml([nodes |-> PatchLoop(doc.nodes, doc.paras, normalized, 1),
                   paras |-> doc.paras])

DocxInit ==
  /\ GenIdle /\ SyncIdle /\ WebIdle /\ JobsIdle /\ PullIdle
  /\ docxPc = "input"
  /\ originalDocx \in Docs(MaxNodes)
  /\ updatedParagraphs \in UpdatedLists
  /\ patchedDocx = originalDocx
  /\ extracted = <<>>

DocxPatch ==
  /\ docxPc = "input"
  /\ patchedDocx' = patchDocxWithParagraphs(originalDocx, updatedParagraphs)
  /\ docxPc' = "patched"
  /\ UNCHANGED <<originalDocx, updatedParagraphs, extracted>>
  /\ UNCHANGED <<genVars, syncVars, webVars, jobVars, pullVars>>

DocxExtract ==
  /\ docxPc = "patched"
  /\ extracted' = extractParagraphsFromDocxBase64(patchedDocx)
  /\ docxPc' = "extracted"
  /\ UNCHANGED <<originalDocx, updatedParagraphs, patchedDocx>>
  /\ UNCHANGED <<genVars, syncVars, webVars, jobVars, pullVars>>

NextDocx == DocxPatch \/ DocxExtract

SpecDocx == DocxInit /\ [][NextDocx]_vars

(***************************************************************************)
(* Claims about DOCX patching.                                             *)
(***************************************************************************)
\* C1: patchDocxWithParagraphs changes only the text of existing w:t nodes:
\* whatever the length of updatedParagraphs, the patched document has the
\* same w:p paragraphs in the same order, each with the same w:t nodes, and
\* the same number of w:t nodes; none is added or removed.
C1_StructurePreserved ==
  docxPc # "input" =>
    /\ Len(patchedDocx.nodes) = Len(originalDocx.nodes)
    /\ patchedDocx.paras = originalDocx.paras

\* a patched two-paragraph document, the second paragraph with two w:t
\* nodes, patched from a list longer than the paragraph count
C1_Witness ==
  /\ docxPc = "patched"
  /\ Len(originalDocx.paras) = 2
  /\ originalDocx.paras[2].last - originalDocx.paras[2].first = 1
  /\ Len(updatedParagraphs) = 3
  /\ patchedDocx.nodes # originalDocx.nodes

\* the text the round trip is expected to give for paragraph i
ExpectedParagraph(i) ==
  IF IsEmptyRange(originalDocx.paras[i]) THEN <<>>
  ELSE IF i <= Len(updatedParagraphs) THEN updatedParagraphs[i]
  ELSE <<>>

\* C2: extractParagraphsFromDocxBase64 of the patched document returns, for
\* every paragraph with at least one w:t node, updatedParagraphs[i] when i
\* is below the list length and the empty string otherwise, and the empty
\* string for a paragraph without w:t nodes.
C2_RoundTrip ==
  docxPc = "extracted" =>
    /\ Len(extracted) = Len(originalDocx.paras)
    /\ \A i \in 1..Len(extracted) : extracted[i] = ExpectedParagraph(i)

\* no paragraph of the document encloses another one (no text box)
Flat(doc) ==
  \A i \in 1..Len(doc.paras), j \in 1..Len(doc.paras) :
    (i < j /\ ~IsEmptyRange(doc.paras[i]) /\ ~IsEmptyRange(doc.paras[j])) =>
      doc.paras[j].first > doc.paras[i].last

\* the round trip on documents without nested paragraphs
C2_RoundTripFlat == Flat(originalDocx) => C2_RoundTrip

(***************************************************************************)
(* JobAnalysis: texts and AI responses.                                    *)
(*                                                                         *)
(* A text is the list of its lines ('' is the empty list); a line is one   *)
(* of a few strings that stand for the kinds of line the code tells apart: *)
(* an empty line, an ordinary line, the e-mail address of the resume, a    *)
(* bracket placeholder, and a job keyword with and without markdown bold.  *)
(***************************************************************************)
\* paragraphs of the original resume
MaxOrig == 2
\* entries of one replacements response
MaxRepl == 1
\* invocations of the generate functions in one JobAnalysis session
MaxRuns == 2
\* lines the typewriter adds per tick (chunkSize, scaled to the model's texts)
ChunkLines == 1

Email == "jane@mail.com"

Placeholder == "[Your Name]"

Keyword == "sql"

BoldKeyword == "**sql**"

\* extractEmail returns null
NoEmail == ""

OrigTexts == {"", "body", Email}

RespTexts == {"", "body", Email, Placeholder, BoldKeyword}

\* stripMarkdownArtifacts on one line: **x** becomes x
StripLine(t) == IF t = BoldKeyword THEN Keyword ELSE t

\* stripMarkdownArtifacts(text)
stripMarkdownArtifacts(text) == [i \in 1..Len(text) |-> StripLine(text[i])]

RECURSIVE TrimStart(_)
TrimStart(text) ==
  IF text = <<>> THEN <<>>
  ELSE IF Head(text) = "" THEN TrimStart(Tail(text))
  ELSE text

RECURSIVE TrimEnd(_)
TrimEnd(text) ==
  IF text = <<>> THEN <<>>
  ELSE IF text[Len(text)] = "" THEN TrimEnd(SubSeq(text, 1, Len(text) - 1))
  ELSE text

\* String.prototype.trim: leading and trailing blank lines go
Trim(text) == TrimEnd(TrimStart(text))

\* paragraphs.join('\n'): one line per paragraph; the join of [] and of ['']
\* is the empty string
Join(paragraphs) == IF paragraphs = <<"">> THEN <<>> ELSE paragraphs

\* the words tokenize() keeps of one line (lower case, three letters or
\* more, no stopword)
Words(t) ==
  IF t = "body" THEN {"body"}
  ELSE IF t = Email THEN {"jane", "mail", "com"}
  ELSE IF t = Placeholder THEN {"name"}
  ELSE IF t = Keyword \/ t = BoldKeyword THEN {Keyword}
  ELSE {}

tokenize(text) == UNION {Words(text[i]) : i \in 1..Len(text)}

\* computeHeuristicScore(resumeText, jobText), jobText given by its terms:
\* Math.round(clamp(15 + ratio * 85, 0, 100))
computeHeuristicScore(resumeText, jobTerms) ==
  LET resumeSet == tokenize(resumeText)
      n == Cardinality(jobTerms)
      hit == Cardinality(jobTerms \cap resumeSet)
  IN IF n = 0 \/ resumeSet = {} THEN 0
     ELSE (2 * 15 * n + 2 * 85 * hit + n) \div (2 * n)

includesKeyword(text, keyword) == keyword \in tokenize(text)

missingKeywordsFromText(text, keywords) ==
  SelectSeq(keywords, LAMBDA k : ~includesKeyword(text, k))

containsPlaceholderTokens(text) ==
  text # <<>> /\ \E i \in 1..Len(text) : text[i] = Placeholder

extractEmail(text) == IF \E i \in 1..Len(text) : text[i] = Email THEN Email ELSE NoEmail

\* cleaned.includes(resumeEmail)
Includes(text, s) == \E i \in 1..Len(text) : text[i] = s

\* the resumes of the model: the text of a plain resume or the paragraphs of
\* a DOCX resume
Resumes == [isDocx : BOOLEAN, paragraphs : SeqsUpTo(OrigTexts, MaxOrig)]

JobDescriptions == {{Keyword}, {Keyword, "cloud"}}

KeywordLists == {<<>>, <<Keyword>>}

\* the entries of a replacements array or of a replacements object
Entries == [index : 0..(MaxOrig + 1), text : RespTexts]

StrictlyAscending(items) ==
  \A i \in 1..Len(items), j \in 1..Len(items) : i < j => items[i].index < items[j].index

\* AI responses: plain text (not JSON), a JSON scalar, {paragraphs: [...]},
\* {replacements: [{index, text}, ...]} and an object map {"1": "...", ...}
\* (Object.entries lists integer keys in ascending order)
Response(kind, lines, items) == [kind |-> kind, lines |-> lines, items |-> items]

TextResponses == {Response("text", l, <<>>) : l \in SeqsUpTo(RespTexts, MaxOrig)}

JsonResponses ==
  {Response("scalar", <<>>, <<>>)}
    \cup {Response("paragraphs", l, <<>>) : l \in SeqsUpTo(RespTexts, MaxOrig + 1)}
    \cup {Response("replacements", <<>>, e) : e \in SeqsUpTo(Entries, MaxRepl)}
    \cup {Response("map", <<>>, e) : e \in {x \in SeqsUpTo(Entries, MaxRepl) : StrictlyAscending(x)}}

\* what the model lets the AI answer to a request for this resume
Responses(r) ==
  IF r.isDocx THEN JsonResponses \cup {Response("text", <<"body">>, <<>>)}
  ELSE TextResponses

RECURSIVE ApplyReplacements(_, _)
\* the forEach of mergeParagraphsJson over the entries: an entry with an
\* index in 1..original.length replaces that paragraph, others are skipped
ApplyReplacements(items, paragraphs) ==
  IF items = <<>> THEN paragraphs
  ELSE LET item == Head(items)
           next == IF item.index >= 1 /\ item.index <= Len(paragraphs)
                     THEN [paragraphs EXCEPT ![item.index] = StripLine(item.text)]
                     ELSE paragraphs
       IN ApplyReplacements(Tail(items), next)

Merged(paragraphs) == [ok |-> TRUE, paragraphs |-> paragraphs, message |-> ""]

MergeError(message) == [ok |-> FALSE, paragraphs |-> <<>>, message |-> message]

\* mergeParagraphsJson(raw, original); MergeError when it throws
mergeParagraphsJson(raw, original) ==
  IF raw.kind = "text" THEN MergeError("AI did not return valid JSON for DOCX content.")
  ELSE IF raw.kind = "paragraphs"
    THEN IF Len(raw.lines) # Len(original)
           THEN MergeError("AI returned full paragraph list but count mismatch.")
         ELSE Merged(stripMarkdownArtifacts(raw.lines))
  ELSE IF raw.kind = "replacements" THEN Merged(ApplyReplacements(raw.items, original))
  ELSE IF raw.kind = "map" THEN Merged(ApplyReplacements(raw.items, original))
  ELSE MergeError("AI JSON is not a valid replacements format.")

\* attemptBasedTemperature, in hundredths
Temperature(attempts) ==
  IF attempts = 1 THEN 25
  ELSE IF attempts = 2 THEN 40
  ELSE IF attempts = 3 THEN 60
  ELSE 80

(***************************************************************************)
(* JobAnalysis: generateOptimizedResume and generateCoverLetter.           *)
(*                                                                         *)
(* One run of a generate function is a sequence of steps, one per await:   *)
(* each step takes the outcome of the request in flight and runs the       *)
(* function up to its next request or to its end.  A new run starts when   *)
(* the previous function and its storage read have completed.              *)
(***************************************************************************)
AwaitPcs == {"awaitInitial", "awaitJsonRepair", "awaitPlaceholderRepair", "awaitRefine",
             "awaitCoverInitial", "awaitCoverRepair"}

ResumePcs == {"awaitInitial", "awaitJsonRepair", "awaitPlaceholderRepair", "awaitRefine"}

Request(kind) == [kind |-> kind, temperature |-> Temperature(generationAttempts)]

\* the number of requests of a kind the current run has sent
NumRequests(kind) == Cardinality({i \in 1..Len(requests) : requests[i].kind = kind})

\* what no step of a run changes
GenFrame ==
  UNCHANGED <<resume, jobDescription, missingKeywords, generationAttempts, invocations,
              rewriteOpen, rewriteType, rewriteAbortRef, closureRewriteError>>

\* a finally block that leaves the generating flags as they are
FinallyKeepsFlags == UNCHANGED <<generatingResume, generatingCover>>

\* finally { setGeneratingResume(false) } / { setGeneratingCover(false) }
Finally ==
  /\ generatingResume' = IF rewriteType = "resume" THEN FALSE ELSE generatingResume
  /\ generatingCover' = IF rewriteType = "coverLetter" THEN FALSE ELSE generatingCover

\* throw new Error(msg) inside the try: the catch branch for an error that
\* is not an AbortError, then finally
Throw(msg) ==
  /\ rewriteStatus' = "error"
  /\ rewriteError' = msg
  /\ Finally
  /\ genPc' = "idle"
  /\ cleaned' = <<>>
  /\ UNCHANGED <<rewriteFullText, rewriteDisplayedText, rewriteTimerRef, requests,
                 signalAborted>>
  /\ GenFrame

\* await runOnce(prompt): the request is sent and the function waits
Send(kind, pc, c) ==
  /\ requests' = Append(requests, Request(kind))
  /\ genPc' = pc
  /\ cleaned' = c
  /\ UNCHANGED <<rewriteStatus, rewriteError, rewriteFullText, rewriteDisplayedText,
                 rewriteTimerRef, generatingResume, generatingCover, signalAborted>>
  /\ GenFrame

\* startTypewriter(text): the interval is restarted from the first chunk
startTypewriter(text) ==
  /\ rewriteDisplayedText' = <<>>
  /\ rewriteStatus' = "typing"
  /\ rewriteTimerRef' = [running |-> TRUE, text |-> text, i |-> 0]

\* the end of generateOptimizedResume: the storage read is queued, the text
\* is shown unless the handler's render had a rewriteError, then finally
ShowResume(c) ==
  /\ IF ~closureRewriteError
       THEN /\ rewriteFullText' = c
            /\ startTypewriter(c)
       ELSE UNCHANGED <<rewriteFullText, rewriteDisplayedText, rewriteStatus, rewriteTimerRef>>
  /\ Finally
  /\ genPc' = "storage"
  /\ cleaned' = c
  /\ UNCHANGED <<rewriteError, requests, signalAborted>>
  /\ GenFrame

\* lines 1714-1750: the final checks of generateOptimizedResume
FinishResume(c) ==
  IF c = <<>> THEN Throw("AI returned empty resume text")
  ELSE IF containsPlaceholderTokens(c) THEN Throw("Generated resume still contains placeholders.")
  ELSE IF extractEmail(resume.paragraphs) # NoEmail /\ ~Includes(c, extractEmail(resume.paragraphs))
    THEN Throw("Generated resume removed your email.")
  ELSE ShowResume(c)

\* lines 1623-1693: the keyword refinement request, when called for
RefineStage(c) ==
  LET pass1Heuristic == computeHeuristicScore(c, jobDescription)
      missingAfterPass1 == missingKeywordsFromText(c, missingKeywords)
  IN IF (Len(missingAfterPass1) > 0 \/ pass1Heuristic < 95) /\ Len(missingKeywords) > 0
       THEN Send("refine", "awaitRefine", c)
       ELSE FinishResume(c)

\* lines 1566-1621: the empty check and the placeholder / e-mail repair request
AfterJsonStage(c) ==
  LET resumeEmail == extractEmail(resume.paragraphs)
      needsRetry == containsPlaceholderTokens(c) \/ (resumeEmail # NoEmail /\ ~Includes(c, resumeEmail))
  IN IF c = <<>> THEN Throw("AI returned empty resume text")
     ELSE IF needsRetry THEN Send("placeholderRepair", "awaitPlaceholderRepair", c)
     ELSE RefineStage(c)

\* a repair step that asks the AI again when the repair response cannot be
\* merged either
JsonRepairAgain(raw2) ==
  IF mergeParagraphsJson(raw2, resume.paragraphs).ok
    THEN AfterJsonStage(Join(mergeParagraphsJson(raw2, resume.paragraphs).paragraphs))
    ELSE Send("jsonRepair", "awaitJsonRepair", <<>>)

\* lines 1559-1561: the repair response is merged; a throw of
\* mergeParagraphsJson here leaves the try
JsonRepairStage(raw2) ==
  IF mergeParagraphsJson(raw2, resume.paragraphs).ok
    THEN AfterJsonStage(Join(mergeParagraphsJson(raw2, resume.paragraphs).paragraphs))
    ELSE Throw(mergeParagraphsJson(raw2, resume.paragraphs).message)

\* JobAnalysis mounted for a resume, a job and a finished analysis
GenInit ==
  /\ DocxIdle /\ SyncIdle /\ WebIdle /\ JobsIdle /\ PullIdle
  /\ genPc = "idle"
  /\ resume \in Resumes
  /\ jobDescription \in JobDescriptions
  /\ missingKeywords \in KeywordLists
  /\ generatingResume = FALSE
  /\ generatingCover = FALSE
  /\ rewriteOpen = FALSE
  /\ rewriteType = "resume"
  /\ rewriteStatus = "idle"
  /\ rewriteError = ""
  /\ rewriteFullText = <<>>
  /\ rewriteDisplayedText = <<>>
  /\ generationAttempts = 0
  /\ rewriteAbortRef = "null"
  /\ signalAborted = FALSE
  /\ rewriteTimerRef = NoTimer
  /\ closureRewriteError = FALSE
  /\ cleaned = <<>>
  /\ requests = <<>>
  /\ invocations = [resume |-> 0, coverLetter |-> 0]
  /\ jsonFailures = 0

\* lines 1450-1463 and 1831-1845: the modal is reset and a new
\* AbortController replaces the old one; then the first request is sent
StartRun(type, kind, pc) ==
  /\ genPc = "idle"
  /\ invocations["resume"] + invocations["coverLetter"] < MaxRuns
  /\ invocations' = [invocations EXCEPT ![type] = @ + 1]
  /\ generatingResume' = IF type = "resume" THEN TRUE ELSE generatingResume
  /\ generatingCover' = IF type = "coverLetter" THEN TRUE ELSE generatingCover
  /\ rewriteOpen' = TRUE
  /\ rewriteType' = type
  /\ rewriteStatus' = "generating"
  /\ rewriteError' = ""
  /\ rewriteFullText' = <<>>
  /\ rewriteDisplayedText' = <<>>
  /\ rewriteTimerRef' = NoTimer
  /\ rewriteAbortRef' = "controller"
  /\ signalAborted' = FALSE
  /\ closureRewriteError' = (rewriteError # "")
  /\ requests' = <<Request(kind)>>
  /\ genPc' = pc
  /\ cleaned' = <<>>
  /\ jsonFailures' = 0
  /\ UNCHANGED <<resume, jobDescription, missingKeywords, generationAttempts>>

\* click on "Remake Resume" (disabled while generatingResume):
\* generateOptimizedResume up to its first await
StartResume ==
  /\ ~generatingResume
  /\ StartRun("resume", "initial", "awaitInitial")
  /\ UNCHANGED <<docxVars, syncVars, webVars, jobVars, pullVars>>

\* click on "Create Cover Letter" (disabled while generatingCover):
\* generateCoverLetter up to its first await
StartCoverLetter ==
  /\ ~generatingCover
  /\ StartRun("coverLetter", "coverInitial", "awaitCoverInitial")
  /\ UNCHANGED <<docxVars, syncVars, webVars, jobVars, pullVars>>

\* the initial request resolves: lines 1539-1566 and what follows
ReceiveInitial ==
  /\ genPc = "awaitInitial"
  /\ ~signalAborted
  /\ \E raw \in Responses(resume) :
       IF resume.isDocx
         THEN LET m == mergeParagraphsJson(raw, resume.paragraphs)
              IN IF m.ok
                   THEN /\ AfterJsonStage(Join(m.paragraphs))
                        /\ jsonFailures' = jsonFailures
                   ELSE /\ Send("jsonRepair", "awaitJsonRepair", <<>>)
                        /\ jsonFailures' = jsonFailures + 1
         ELSE /\ AfterJsonStage(Trim(stripMarkdownArtifacts(raw.lines)))
              /\ jsonFailures' = jsonFailures
  /\ UNCHANGED <<docxVars, syncVars, webVars, jobVars, pullVars>>

\* the JSON repair request resolves
ReceiveJsonRepair ==
  /\ genPc = "awaitJsonRepair"
  /\ ~signalAborted
  /\ \E raw2 \in Responses(resume) :
       /\ JsonRepairStage(raw2)
       /\ jsonFailures' = IF mergeParagraphsJson(raw2, resume.paragraphs).ok
                            THEN jsonFailures ELSE jsonFailures + 1
  /\ UNCHANGED <<docxVars, syncVars, webVars, jobVars, pullVars>>

\* the placeholder / e-mail repair request resolves: lines 1591-1593, 1619
ReceivePlaceholderRepair ==
  /\ genPc = "awaitPlaceholderRepair"
  /\ ~signalAborted
  /\ \E raw2 \in Responses(resume) :
       IF resume.isDocx
         THEN LET m == mergeParagraphsJson(raw2, resume.paragraphs)
              IN IF m.ok THEN RefineStage(Join(m.paragraphs)) ELSE Throw(m.message)
         ELSE RefineStage(Trim(raw2.lines))
  /\ UNCHANGED jsonFailures
  /\ UNCHANGED <<docxVars, syncVars, webVars, jobVars, pullVars>>

\* the refinement request resolves: lines 1695-1712; a response that cannot
\* be merged, or an empty one, is ignored
ReceiveRefine ==
  /\ genPc = "awaitRefine"
  /\ ~signalAborted
  /\ \E refinedRaw \in Responses(resume) :
       IF resume.isDocx
         THEN LET m == mergeParagraphsJson(refinedRaw, resume.paragraphs)
              IN IF m.ok /\ Len(m.paragraphs) > 0
                   THEN FinishResume(Join(m.paragraphs))
                   ELSE FinishResume(cleaned)
         ELSE IF Trim(refinedRaw.lines) # <<>>
                THEN FinishResume(Trim(refinedRaw.lines))
                ELSE FinishResume(cleaned)
  /\ UNCHANGED jsonFailures
  /\ UNCHANGED <<docxVars, syncVars, webVars, jobVars, pullVars>>

\* the end of generateCoverLetter: the storage read is queued, then finally
QueueCoverLetter(c) ==
  /\ Finally
  /\ genPc' = "storage"
  /\ cleaned' = c
  /\ UNCHANGED <<rewriteStatus, rewriteError, rewriteFullText, rewriteDisplayedText,
                 rewriteTimerRef, requests, signalAborted>>
  /\ GenFrame

\* lines 1930-1955: the final checks of generateCoverLetter
FinishCoverLetter(c) ==
  IF c = <<>> THEN Throw("AI returned empty cover letter")
  ELSE IF containsPlaceholderTokens(c)
    THEN Throw("Generated cover letter still contains placeholders.")
  ELSE QueueCoverLetter(c)

\* the cover letter request resolves: lines 1899-1928
ReceiveCoverInitial ==
  /\ genPc = "awaitCoverInitial"
  /\ ~signalAborted
  /\ \E raw \in TextResponses :
       LET c == Trim(stripMarkdownArtifacts(raw.lines))
       IN IF c = <<>> THEN Throw("AI returned empty cover letter")
          ELSE IF containsPlaceholderTokens(c) THEN Send("coverRepair", "awaitCoverRepair", c)
          ELSE FinishCoverLetter(c)
  /\ UNCHANGED jsonFailures
  /\ UNCHANGED <<docxVars, syncVars, webVars, jobVars, pullVars>>

\* the cover letter repair request resolves: line 1927 and what follows
ReceiveCoverRepair ==
  /\ genPc = "awaitCoverRepair"
  /\ ~signalAborted
  /\ \E raw \in TextResponses : FinishCoverLetter(Trim(raw.lines))
  /\ UNCHANGED jsonFailures
  /\ UNCHANGED <<docxVars, syncVars, webVars, jobVars, pullVars>>

\* the callback of chrome.storage.local.get: lines 1727-1745 and 1935-1955
StorageCallback ==
  /\ genPc = "storage"
  /\ IF rewriteType = "resume" \/ ~closureRewriteError
       THEN /\ rewriteFullText' = cleaned
            /\ startTypewriter(cleaned)
       ELSE UNCHANGED <<rewriteFullText, rewriteDisplayedText, rewriteStatus, rewriteTimerRef>>
  /\ genPc' = "idle"
  /\ cleaned' = <<>>
  /\ UNCHANGED <<rewriteError, requests, signalAborted, generatingResume, generatingCover,
                 jsonFailures>>
  /\ GenFrame
  /\ UNCHANGED <<docxVars, syncVars, webVars, jobVars, pullVars>>

\* the request in flight fails (HTTP error, network error): the API call throws
RequestFails ==
  /\ genPc \in AwaitPcs
  /\ ~signalAborted
  /\ Throw("API error")
  /\ UNCHANGED jsonFailures
  /\ UNCHANGED <<docxVars, syncVars, webVars, jobVars, pullVars>>

\* withTimeout's timer fires (generateOptimizedResume only): the controller
\* is aborted and the race rejects with the timeout error
RequestTimesOut ==
  /\ genPc \in ResumePcs
  /\ ~signalAborted
  /\ rewriteStatus' = "error"
  /\ rewriteError' = "request timed out"
  /\ Finally
  /\ genPc' = "idle"
  /\ cleaned' = <<>>
  /\ signalAborted' = (rewriteAbortRef = "controller")
  /\ UNCHANGED <<rewriteFullText, rewriteDisplayedText, rewriteTimerRef, requests, jsonFailures>>
  /\ GenFrame
  /\ UNCHANGED <<docxVars, syncVars, webVars, jobVars, pullVars>>

\* the request in flight rejects with an AbortError: lines 1753-1755, 1958-1960
RequestAborted ==
  /\ genPc \in AwaitPcs
  /\ signalAborted
  /\ rewriteStatus' = "cancelled"
  /\ rewriteError' = "Cancelled."
  /\ Finally
  /\ genPc' = "idle"
  /\ cleaned' = <<>>
  /\ UNCHANGED <<rewriteFullText, rewriteDisplayedText, rewriteTimerRef, requests,
                 signalAborted, jsonFailures>>
  /\ GenFrame
  /\ UNCHANGED <<docxVars, syncVars, webVars, jobVars, pullVars>>

\* click on Cancel, shown while the status is generating or typing
cancelRewrite ==
  /\ rewriteOpen
  /\ rewriteStatus \in {"generating", "typing"}
  /\ signalAborted' = (signalAborted \/ rewriteAbortRef = "controller")
  /\ rewriteStatus' = "cancelled"
  /\ rewriteError' = "Cancelled."
  /\ UNCHANGED <<genPc, resume, jobDescription, missingKeywords, generatingResume,
                 generatingCover, rewriteOpen, rewriteType, rewriteFullText,
                 rewriteDisplayedText, generationAttempts, rewriteAbortRef, rewriteTimerRef,
                 closureRewriteError, cleaned, requests, invocations, jsonFailures>>
  /\ UNCHANGED <<docxVars, syncVars, webVars, jobVars, pullVars>>

\* click on Close
closeRewriteModal ==
  /\ rewriteOpen
  /\ rewriteTimerRef' = NoTimer
  /\ signalAborted' = (signalAborted \/ rewriteAbortRef = "controller")
  /\ rewriteAbortRef' = "null"
  /\ rewriteOpen' = FALSE
  /\ UNCHANGED <<genPc, resume, jobDescription, missingKeywords, generatingResume,
                 generatingCover, rewriteType, rewriteStatus, rewriteError, rewriteFullText,
                 rewriteDisplayedText, generationAttempts, closureRewriteError, cleaned,
                 requests, invocations, jsonFailures>>
  /\ UNCHANGED <<docxVars, syncVars, webVars, jobVars, pullVars>>

\* one tick of the typewriter interval
TypewriterTick ==
  /\ rewriteTimerRef.running
  /\ LET text == rewriteTimerRef.text
         i == Min(Len(text), rewriteTimerRef.i + ChunkLines)
     IN /\ rewriteDisplayedText' = SubSeq(text, 1, i)
        /\ IF i >= Len(text)
             THEN /\ rewriteTimerRef' = NoTimer
                  /\ rewriteStatus' = "done"
             ELSE /\ rewriteTimerRef' = [rewriteTimerRef EXCEPT !.i = i]
                  /\ UNCHANGED rewriteStatus
  /\ UNCHANGED <<genPc, resume, jobDescription, missingKeywords, generatingResume,
                 generatingCover, rewriteOpen, rewriteType, rewriteError, rewriteFullText,
                 generationAttempts, rewriteAbortRef, signalAborted, closureRewriteError,
                 cleaned, requests, invocations, jsonFailures>>
  /\ UNCHANGED <<docxVars, syncVars, webVars, jobVars, pullVars>>

NextGen ==
  \/ StartResume
  \/ StartCoverLetter
  \/ ReceiveInitial
  \/ ReceiveJsonRepair
  \/ ReceivePlaceholderRepair
  \/ ReceiveRefine
  \/ ReceiveCoverInitial
  \/ ReceiveCoverRepair
  \/ StorageCallback
  \/ RequestFails
  \/ RequestTimesOut
  \/ RequestAborted
  \/ cancelRewrite
  \/ closeRewriteModal
  \/ TypewriterTick

SpecGen == GenInit /\ [][NextGen]_vars

\* the request in flight resolves, rejects or times out
RequestOutcome ==
  \/ ReceiveInitial
  \/ ReceiveJsonRepair
  \/ ReceivePlaceholderRepair
  \/ ReceiveRefine
  \/ ReceiveCoverInitial
  \/ ReceiveCoverRepair
  \/ RequestFails
  \/ RequestTimesOut
  \/ RequestAborted

\* every request in flight has an outcome (fetch settles, or withTimeout's
\* timer fires) and chrome.storage.local.get calls its callback
SpecGenFair == SpecGen /\ WF_vars(RequestOutcome) /\ WF_vars(StorageCallback)

(***************************************************************************)
(* Claims about the generate functions.                                    *)
(***************************************************************************)
\* C3: JSON repair is retried exactly once.  In a run of
\* generateOptimizedResume for a DOCX resume, a JSON repair request is sent
\* if and only if the first response could not be merged, and then exactly
\* one, as the second request of the run; when the repair response cannot be
\* merged either, the run is over with no further request, rewriteStatus is
\* 'error', rewriteFullText and the displayed text are empty and no
\* typewriter is running.
C3_RepairOnce ==
  /\ jsonFailures = 0 => NumRequests("jsonRepair") = 0
  /\ jsonFailures >= 1 =>
       /\ resume.isDocx
       /\ NumRequests("jsonRepair") = 1
       /\ Len(requests) >= 2
       /\ requests[2].kind = "jsonRepair"
  /\ jsonFailures >= 2 =>
       /\ jsonFailures = 2
       /\ genPc = "idle"
       /\ Len(requests) = 2
       /\ ~generatingResume
       /\ rewriteStatus = "error"
       /\ rewriteFullText = <<>>
       /\ rewriteDisplayedText = <<>>
       /\ ~rewriteTimerRef.running

\* a run whose first response and whose repair response both failed to merge
C3_Witness ==
  /\ jsonFailures = 2
  /\ rewriteStatus = "error"
  /\ Len(requests) = 2
  /\ requests[1].kind = "initial"

\* the statuses a finished run of generateOptimizedResume leaves in the modal
EndStatuses == {"typing", "done", "error", "cancelled"}

\* the requests of the current run of generateOptimizedResume: the initial
\* request first, then at most one of each repair kind
C14_RequestsBounded ==
  rewriteType = "resume" =>
    /\ Len(requests) <= 4
    /\ requests # <<>> => requests[1].kind = "initial"
    /\ NumRequests("initial") <= 1
    /\ NumRequests("jsonRepair") <= 1
    /\ NumRequests("placeholderRepair") <= 1
    /\ NumRequests("refine") <= 1
    /\ \A i \in 1..Len(requests) :
         requests[i].kind \in {"initial", "jsonRepair", "placeholderRepair", "refine"}

\* the function has returned: generatingResume is false; and once its storage
\* read has completed as well the status is one of the end statuses
C14_EndState ==
  /\ (rewriteType = "resume" /\ genPc \in {"storage", "idle"}) => ~generatingResume
  /\ (rewriteType = "resume" /\ genPc = "idle" /\ invocations["resume"] > 0) =>
       rewriteStatus \in EndStatuses

\* C14: bounded retries and termination.  One run of generateOptimizedResume
\* issues at most four AI requests (the initial request, at most one JSON
\* repair, at most one placeholder / e-mail repair, at most one keyword
\* refinement) and, if every request eventually resolves, rejects or times
\* out, the run ends, with generatingResume false and rewriteStatus one of
\* typing, done, error, cancelled.
C14_BoundedAndTerminates ==
  /\ []C14_RequestsBounded
  /\ []C14_EndState
  /\ (genPc \in ResumePcs) ~> (genPc = "idle" /\ ~generatingResume /\ rewriteStatus \in EndStatuses)

\* a run that sent all four requests and ended with the text being typed
C14_Witness ==
  /\ rewriteType = "resume"
  /\ genPc = "idle"
  /\ Len(requests) = 4
  /\ requests[2].kind = "jsonRepair"
  /\ requests[3].kind = "placeholderRepair"
  /\ requests[4].kind = "refine"
  /\ ~generatingResume
  /\ rewriteStatus = "typing"

\* C8: the requests of the n-th invocation of generateOptimizedResume (and
\* of generateCoverLetter) in a session carry the temperature of attempt n:
\* 0.25 for n = 1, 0.4 for n = 2, 0.6 for n = 3, 0.8 from n = 4 on.
C8_TemperaturePerAttempt ==
  \A i \in 1..Len(requests) :
    requests[i].temperature = Temperature(invocations[rewriteType])

\* what the code does: every request of every invocation carries 0.8
C8_AlwaysHottest ==
  \A i \in 1..Len(requests) : requests[i].temperature = 80

(***************************************************************************)
(* The functions of firebase/sync.ts.                                      *)
(***************************************************************************)
Record(id, val, owner) == [id |-> id, val |-> val, owner |-> owner]

Doc(coll, rec) == [coll |-> coll, id |-> rec.id, val |-> rec.val, owner |-> rec.owner]

\* getFirebaseAuth() and getFirestore() are null unless sync is enabled
FirebaseReady == fbEnabled

\* the state a handler starts from
Now ==
  [storage |-> storage, firestore |-> firestore, currentUser |-> currentUser,
   accounts |-> accounts, reads |-> 0, writes |-> 0, sets |-> 0]

Return(st) == [st |-> st, error |-> ""]

Raise(st, error) == [st |-> st, error |-> error]

\* updateCloudSyncState(patch): {...prev, ...patch, enabled: isFirebaseEnabled()}
updateCloudSyncState(st, patch) ==
  LET prev == st.storage.cloudSync
      next == [f \in DOMAIN NoCloudSync |->
                 IF f = "enabled" THEN fbEnabled
                 ELSE IF f = "written" THEN TRUE
                 ELSE IF f \in DOMAIN patch THEN patch[f]
                 ELSE prev[f]]
  IN [st EXCEPT !.storage.cloudSync = next, !.sets = @ + 1]

\* an ensureUser that signs a guest in when nobody is signed in
ensureUserOrGuest(st) ==
  IF ~FirebaseReady THEN [ok |-> FALSE, error |-> NotConfigured, uid |-> NoUser, st |-> st]
  ELSE IF st.currentUser = NoUser /\ \A u \in Uids : st.accounts[u] # "none"
    THEN [ok |-> FALSE, error |-> SignInRequired, uid |-> NoUser, st |-> st]
  ELSE LET uid == IF st.currentUser # NoUser THEN st.currentUser
                  ELSE CHOOSE u \in Uids : st.accounts[u] = "none"
           signedIn == [st EXCEPT !.currentUser = uid,
                                  !.accounts[uid] = IF @ = "none" THEN "guest" ELSE @]
       IN [ok |-> TRUE, error |-> "", uid |-> uid,
           st |-> updateCloudSyncState(signedIn, [uid |-> uid])]

\* ensureUser(): throws unless a user is signed in; never signs in
ensureUser(st) ==
  IF ~FirebaseReady THEN [ok |-> FALSE, error |-> NotConfigured, uid |-> NoUser, st |-> st]
  ELSE IF st.currentUser = NoUser
    THEN [ok |-> FALSE, error |-> SignInRequired, uid |-> NoUser, st |-> st]
  ELSE [ok |-> TRUE, error |-> "", uid |-> st.currentUser,
        st |-> updateCloudSyncState(st, [uid |-> st.currentUser])]

\* setDoc(doc(firestore, 'users', uid, coll, rec.id), {...}, {merge: true})
setDoc(st, uid, coll, rec) ==
  [st EXCEPT !.firestore[uid] = {d \in @ : ~(d.coll = coll /\ d.id = rec.id)} \cup {Doc(coll, rec)},
             !.writes = @ + 1]

\* deleteDoc(doc(firestore, 'users', uid, coll, id))
deleteDoc(st, uid, coll, id) ==
  [st EXCEPT !.firestore[uid] = {d \in @ : ~(d.coll = coll /\ d.id = id)},
             !.writes = @ + 1]

\* tryCloudSyncResume, tryCloudSyncOptimizedResume, tryCloudSyncCoverLetter,
\* tryCloudSyncJob, tryCloudSyncApplication: the same steps on their collection
tryCloudSync(st, coll, rec) ==
  IF ~fbEnabled THEN Return(st)
  ELSE IF ~FirebaseReady THEN Raise(st, NotConfigured)
  ELSE LET u == ensureUser(st)
       IN IF ~u.ok THEN Raise(u.st, u.error)
          ELSE Return(updateCloudSyncState(setDoc(u.st, u.uid, coll, rec),
                                           [lastPushAt |-> TRUE, lastError |-> ""]))

\* tryCloudDeleteOptimizedResume, tryCloudDeleteCoverLetter, tryCloudDeleteApplication
tryCloudDelete(st, coll, id) ==
  IF ~fbEnabled THEN Return(st)
  ELSE IF ~FirebaseReady THEN Return(st)
  ELSE LET u == ensureUser(st)
       IN IF ~u.ok THEN Raise(u.st, u.error)
          ELSE Return(deleteDoc(u.st, u.uid, coll, id))

\* arr.findIndex(x => x.id === id); 0 when there is none
IndexOfId(arr, id) ==
  IF \E i \in 1..Len(arr) : arr[i].id = id
    THEN CHOOSE i \in 1..Len(arr) : arr[i].id = id /\ \A j \in 1..(i - 1) : arr[j].id # id
    ELSE 0

\* upsertById(arr, item): {...arr[idx], ...item} or push; the ghost owner is
\* no field of the cloud document and stays
upsertById(arr, item) ==
  LET idx == IndexOfId(arr, item.id)
  IN IF idx > 0 THEN [arr EXCEPT ![idx] = Record(item.id, item.val, @.owner)]
     ELSE Append(arr, Record(item.id, item.val, item.owner))

RECURSIVE UpsertDocs(_, _, _)
\* the for loop of the pull over the documents of one collection, which
\* getDocs returns in the order of their ids
UpsertDocs(arr, docs, id) ==
  IF id > MaxPerColl THEN arr
  ELSE IF \E d \in docs : d.id = id
    THEN UpsertDocs(upsertById(arr, CHOOSE d \in docs : d.id = id), docs, id + 1)
    ELSE UpsertDocs(arr, docs, id + 1)

\* lines 229-357 of tryCloudPullAllToLocal: five getDocs, the upserts, the
\* storage write
PullInto(st, uid) ==
  LET merged == [k \in DOMAIN st.storage |->
                   IF k \in CollSet
                     THEN UpsertDocs(st.storage[k], {d \in st.firestore[uid] : d.coll = k}, 1)
                     ELSE st.storage[k]]
  IN [st EXCEPT !.storage = merged, !.reads = @ + Len(Colls), !.sets = @ + 1]

\* tryCloudPullAllToLocal()
tryCloudPullAllToLocal(st) ==
  IF ~fbEnabled THEN Return(st)
  ELSE IF ~FirebaseReady THEN Raise(st, NotConfigured)
  ELSE LET u == ensureUser(st)
       IN IF ~u.ok
            THEN Raise(updateCloudSyncState(u.st, [lastError |-> u.error, lastErrorAt |-> TRUE]),
                       u.error)
            ELSE Return(updateCloudSyncState(PullInto(u.st, u.uid),
                                             [lastPullAt |-> TRUE, lastError |-> ""]))

\* the local records in the order the push works through them
AllRecords(st) ==
  Concat([c \in 1..Len(Colls) |->
            [i \in 1..Len(st.storage[Colls[c]]) |->
               [coll |-> Colls[c], rec |-> st.storage[Colls[c]][i]]]])

RECURSIVE PushLoop(_, _)
\* the five for loops of tryCloudPushAllFromLocal; the first error stops them
PushLoop(st, items) ==
  IF items = <<>> THEN Return(st)
  ELSE LET out == tryCloudSync(st, Head(items).coll, Head(items).rec)
       IN IF out.error # "" THEN out ELSE PushLoop(out.st, Tail(items))

\* a push-all without the isFirebaseEnabled() guard
tryCloudPushAllUnguarded(st) ==
  LET u == ensureUser(st)
  IN IF ~u.ok
       THEN Raise(updateCloudSyncState(u.st, [lastError |-> u.error, lastErrorAt |-> TRUE]),
                  u.error)
       ELSE LET out == PushLoop(u.st, AllRecords(u.st))
            IN IF out.error # ""
                 THEN Raise(updateCloudSyncState(out.st, [lastError |-> out.error,
                                                          lastErrorAt |-> TRUE]), out.error)
                 ELSE Return(updateCloudSyncState(out.st, [lastPushAt |-> TRUE,
                                                           lastError |-> ""]))

\* tryCloudPushAllFromLocal()
tryCloudPushAllFromLocal(st) ==
  IF ~fbEnabled THEN Return(st)
  ELSE LET u == ensureUser(st)
       IN IF ~u.ok
            THEN Raise(updateCloudSyncState(u.st, [lastError |-> u.error, lastErrorAt |-> TRUE]),
                       u.error)
            ELSE LET out == PushLoop(u.st, AllRecords(u.st))
                 IN IF out.error # ""
                      THEN Raise(updateCloudSyncState(out.st, [lastError |-> out.error,
                                                               lastErrorAt |-> TRUE]), out.error)
                      ELSE Return(updateCloudSyncState(out.st, [lastPushAt |-> TRUE,
                                                                lastError |-> ""]))

\* the record of one call of a sync function made by handler via, for the claims
Entry(via, fn, before, out) ==
  [via |-> via, fn |-> fn, user |-> before.currentUser, error |-> out.error,
   reads |-> out.st.reads - before.reads, writes |-> out.st.writes - before.writes,
   touched |-> out.st.sets > before.sets,
   signedIn |-> out.st.currentUser # before.currentUser \/ out.st.accounts # before.accounts]

(***************************************************************************)
(* The handlers of the extension that touch the synced data.  A handler    *)
(* runs as one step.  Where it starts two asynchronous chains at once      *)
(* (saveGeneratedContent: ensureApplication and the sync of the saved      *)
(* document) the chains run one after the other, in the order they start.  *)
(***************************************************************************)
\* the name of the tryCloudSync* function of a collection
SyncFn(coll) ==
  CASE coll = "resumes" -> "tryCloudSyncResume"
    [] coll = "optimizedResumes" -> "tryCloudSyncOptimizedResume"
    [] coll = "coverLetters" -> "tryCloudSyncCoverLetter"
    [] coll = "applications" -> "tryCloudSyncApplication"
    [] coll = "jobs" -> "tryCloudSyncJob"

\* the name of the tryCloudDelete* function of a collection
DeleteFn(coll) ==
  CASE coll = "optimizedResumes" -> "tryCloudDeleteOptimizedResume"
    [] coll = "coverLetters" -> "tryCloudDeleteCoverLetter"
    [] coll = "applications" -> "tryCloudDeleteApplication"

\* arr.push(rec); chrome.storage.local.set({[coll]: arr})
Push(st, coll, rec) == [st EXCEPT !.storage[coll] = Append(@, rec), !.sets = @ + 1]

\* arr.filter(x => x.id !== id); chrome.storage.local.set({[coll]: updated})
Remove(st, coll, id) ==
  [st EXCEPT !.storage[coll] = SelectSeq(@, LAMBDA r : r.id # id), !.sets = @ + 1]

\* what a handler leaves behind
Commit(name, st, entries) ==
  /\ handlerRuns < MaxHandlerRuns
  /\ handlerRuns' = handlerRuns + 1
  /\ storage' = st.storage
  /\ firestore' = st.firestore
  /\ currentUser' = st.currentUser
  /\ accounts' = st.accounts
  /\ calls' = entries
  /\ fbEnabled' = fbEnabled

\* ResumeUpload handleUpload: the new resume is stored, then synced
UploadResume ==
  /\ nextId["resumes"] < MaxPerColl
  /\ LET rec == Record(nextId["resumes"] + 1, "data", currentUser)
         st1 == Push(Now, "resumes", rec)
         out == tryCloudSync(st1, "resumes", rec)
     IN Commit("handleUpload", out.st, <<Entry("handleUpload", SyncFn("resumes"), st1, out)>>)
  /\ nextId' = [nextId EXCEPT !["resumes"] = @ + 1]
  /\ UNCHANGED dashChange
  /\ UNCHANGED <<docxVars, genVars, webVars, jobVars, pullVars>>

\* Popup: the extracted job is stored unless its URL is stored already
PopupJobPersist ==
  /\ storage.jobs # <<>> \/ nextId["jobs"] < MaxPerColl
  /\ LET st1 == IF storage.jobs # <<>> THEN Now
                ELSE Push(Now, "jobs", Record(nextId["jobs"] + 1, "data", currentUser))
     IN Commit("popupJob", st1, <<>>)
  /\ nextId' = IF storage.jobs # <<>> THEN nextId ELSE [nextId EXCEPT !["jobs"] = @ + 1]
  /\ UNCHANGED dashChange
  /\ UNCHANGED <<docxVars, genVars, webVars, jobVars, pullVars>>

\* Popup loadData: the pull at startup, only for a user who is signed in
PopupStartupPull ==
  /\ IF fbEnabled /\ FirebaseReady /\ currentUser # NoUser
       THEN LET out == tryCloudPullAllToLocal(Now)
            IN Commit("popupStartup", out.st, <<Entry("popupStartup", "tryCloudPullAllToLocal", Now, out)>>)
       ELSE Commit("popupStartup", Now, <<>>)
  /\ UNCHANGED <<nextId, dashChange>>
  /\ UNCHANGED <<docxVars, genVars, webVars, jobVars, pullVars>>

\* the Popup shows JobAnalysis for currentJob and defaultResume
JobAnalysisMounted == storage.jobs # <<>> /\ storage.resumes # <<>>

\* JobAnalysis mount effect: void tryCloudSyncJob(job)
JobAnalysisMount ==
  /\ JobAnalysisMounted
  /\ LET out == tryCloudSync(Now, "jobs", storage.jobs[1])
     IN Commit("jobAnalysisMount", out.st, <<Entry("jobAnalysisMount", SyncFn("jobs"), Now, out)>>)
  /\ UNCHANGED <<nextId, dashChange>>
  /\ UNCHANGED <<docxVars, genVars, webVars, jobVars, pullVars>>

\* ensureApplication(patch): the job is stored if it is not, the application
\* of the job gets the patch or is created, and is synced
ensureApplication(via, st, job, status) ==
  LET jobExists == IndexOfId(st.storage.jobs, job.id) > 0
      st1 == IF jobExists THEN st ELSE Push(st, "jobs", job)
      jobOut == IF jobExists THEN Return(st1) ELSE tryCloudSync(st1, "jobs", job)
      jobCalls == IF jobExists THEN <<>> ELSE <<Entry(via, SyncFn("jobs"), st1, jobOut)>>
      apps == jobOut.st.storage.applications
      existing == apps # <<>>
      app == IF existing THEN [apps[1] EXCEPT !.val = status]
             ELSE Record(nextId["applications"] + 1, status, st.currentUser)
      st2 == IF existing THEN [jobOut.st EXCEPT !.storage.applications[1] = app]
             ELSE Push(jobOut.st, "applications", app)
      appOut == tryCloudSync(st2, "applications", app)
  IN [st |-> appOut.st,
      calls |-> jobCalls \o <<Entry(via, SyncFn("applications"), st2, appOut)>>,
      created |-> ~existing]

\* ensureApplication can create the application it needs
CanEnsureApplication == storage.applications # <<>> \/ nextId["applications"] < MaxPerColl

\* markApplied
markApplied ==
  /\ JobAnalysisMounted
  /\ CanEnsureApplication
  /\ LET ea == ensureApplication("markApplied", Now, storage.jobs[1], "applied")
     IN /\ Commit("markApplied", ea.st, ea.calls)
        /\ nextId' = IF ea.created THEN [nextId EXCEPT !["applications"] = @ + 1] ELSE nextId
  /\ dashChange' = NoChange
  /\ UNCHANGED <<docxVars, genVars, webVars, jobVars, pullVars>>

\* saveGeneratedContent: coll is optimizedResumes or coverLetters by
\* rewriteType; duplicate says the generated text is stored for the job already
saveGeneratedContent(coll, duplicate) ==
  /\ JobAnalysisMounted
  /\ CanEnsureApplication
  /\ IF duplicate THEN storage[coll] # <<>> ELSE nextId[coll] < MaxPerColl
  /\ LET rec == Record(nextId[coll] + 1, "data", currentUser)
         st1 == IF duplicate THEN Now ELSE Push(Now, coll, rec)
         ea == ensureApplication("saveGeneratedContent", st1, storage.jobs[1], "draft")
         out == IF duplicate THEN Return(ea.st) ELSE tryCloudSync(ea.st, coll, rec)
         entries == IF duplicate THEN ea.calls
                    ELSE ea.calls \o <<Entry("saveGeneratedContent", SyncFn(coll), ea.st, out)>>
     IN /\ Commit("saveGeneratedContent", out.st, entries)
        /\ nextId' = [c \in CollSet |->
                        IF (c = coll /\ ~duplicate) \/ (c = "applications" /\ ea.created)
                          THEN nextId[c] + 1 ELSE nextId[c]]
  /\ dashChange' = NoChange
  /\ UNCHANGED <<docxVars, genVars, webVars, jobVars, pullVars>>

\* Dashboard handleSyncNow; the button is disabled unless sync is enabled
handleSyncNow ==
  /\ fbEnabled
  /\ LET out == tryCloudPullAllToLocal(Now)
     IN Commit("handleSyncNow", out.st, <<Entry("handleSyncNow", "tryCloudPullAllToLocal", Now, out)>>)
  /\ UNCHANGED <<nextId, dashChange>>
  /\ UNCHANGED <<docxVars, genVars, webVars, jobVars, pullVars>>

\* Dashboard handlePushLocal; the button is disabled unless sync is enabled
handlePushLocal ==
  /\ fbEnabled
  /\ LET out == tryCloudPushAllFromLocal(Now)
     IN Commit("handlePushLocal", out.st, <<Entry("handlePushLocal", "tryCloudPushAllFromLocal", Now, out)>>)
  /\ UNCHANGED <<nextId, dashChange>>
  /\ UNCHANGED <<docxVars, genVars, webVars, jobVars, pullVars>>

\* Dashboard handleDeleteDraftApplication, offered for draft applications:
\* the cloud delete comes first and a failure keeps the local record
handleDeleteDraftApplication(i) ==
  /\ i \in 1..Len(storage.applications)
  /\ storage.applications[i].val = "draft"
  /\ LET id == storage.applications[i].id
         out == tryCloudDelete(Now, "applications", id)
         st1 == IF out.error # "" THEN out.st ELSE Remove(out.st, "applications", id)
     IN /\ Commit("handleDeleteDraftApplication", st1,
                  <<Entry("handleDeleteDraftApplication", DeleteFn("applications"), Now, out)>>)
        /\ dashChange' = IF out.error = "" /\ dashChange.id = id THEN NoChange ELSE dashChange
  /\ UNCHANGED nextId
  /\ UNCHANGED <<docxVars, genVars, webVars, jobVars, pullVars>>

\* Dashboard handleStatusChange, offered for applications that are no drafts:
\* the new status goes to local storage
handleStatusChange(i, newStatus) ==
  /\ i \in 1..Len(storage.applications)
  /\ storage.applications[i].val # "draft"
  /\ newStatus \in SelectStatuses \ {storage.applications[i].val}
  /\ Commit("handleStatusChange", [Now EXCEPT !.storage.applications[i].val = newStatus], <<>>)
  /\ dashChange' = IF fbEnabled /\ currentUser # NoUser
                     THEN [id |-> storage.applications[i].id, status |-> newStatus]
                     ELSE NoChange
  /\ UNCHANGED nextId
  /\ UNCHANGED <<docxVars, genVars, webVars, jobVars, pullVars>>

\* Dashboard handleDeleteOptimizedResume and handleDeleteCoverLetter
handleDeleteGenerated(coll, i) ==
  /\ coll \in {"optimizedResumes", "coverLetters"}
  /\ i \in 1..Len(storage[coll])
  /\ LET id == storage[coll][i].id
         out == tryCloudDelete(Now, coll, id)
         st1 == IF out.error # "" THEN out.st ELSE Remove(out.st, coll, id)
     IN Commit("handleDeleteGenerated", st1, <<Entry("handleDeleteGenerated", DeleteFn(coll), Now, out)>>)
  /\ UNCHANGED <<nextId, dashChange>>
  /\ UNCHANGED <<docxVars, genVars, webVars, jobVars, pullVars>>

\* Settings shows the sign-in form when sync is enabled and nobody is signed in
CanSignIn == fbEnabled /\ currentUser = NoUser

\* Settings doCloudSignIn with the credentials of account u, then the pull
doCloudSignIn(u) ==
  /\ CanSignIn
  /\ accounts[u] = "email"
  /\ LET st1 == [Now EXCEPT !.currentUser = u]
         out == tryCloudPullAllToLocal(st1)
     IN Commit("doCloudSignIn", out.st, <<Entry("doCloudSignIn", "tryCloudPullAllToLocal", st1, out)>>)
  /\ UNCHANGED <<nextId, dashChange>>
  /\ UNCHANGED <<docxVars, genVars, webVars, jobVars, pullVars>>

\* Settings doCloudSignUp: a new account u
doCloudSignUp(u) ==
  /\ CanSignIn
  /\ accounts[u] = "none"
  /\ Commit("doCloudSignUp", [Now EXCEPT !.currentUser = u, !.accounts[u] = "email"], <<>>)
  /\ UNCHANGED <<nextId, dashChange>>
  /\ UNCHANGED <<docxVars, genVars, webVars, jobVars, pullVars>>

\* Settings doCloudContinueAsGuest: a new anonymous account u
doCloudContinueAsGuest(u) ==
  /\ CanSignIn
  /\ accounts[u] = "none"
  /\ Commit("doCloudContinueAsGuest", [Now EXCEPT !.currentUser = u, !.accounts[u] = "guest"],
            <<>>)
  /\ UNCHANGED <<nextId, dashChange>>
  /\ UNCHANGED <<docxVars, genVars, webVars, jobVars, pullVars>>

\* Settings doCloudUpgradeGuestToAccount: the guest account gets credentials
doCloudUpgradeGuestToAccount ==
  /\ fbEnabled
  /\ currentUser # NoUser
  /\ accounts[currentUser] = "guest"
  /\ Commit("doCloudUpgradeGuestToAccount", [Now EXCEPT !.accounts[currentUser] = "email"], <<>>)
  /\ UNCHANGED <<nextId, dashChange>>
  /\ UNCHANGED <<docxVars, genVars, webVars, jobVars, pullVars>>

\* Settings doCloudSignOut: local storage stays as it is
doCloudSignOut ==
  /\ fbEnabled
  /\ currentUser # NoUser
  /\ Commit("doCloudSignOut", [Now EXCEPT !.currentUser = NoUser], <<>>)
  /\ dashChange' = NoChange
  /\ UNCHANGED nextId
  /\ UNCHANGED <<docxVars, genVars, webVars, jobVars, pullVars>>

RECURSIVE DeleteLoop(_, _, _, _)
\* the loop of the JobAnalysis delete handlers over targetIds: the first
\* cloud delete that fails is rethrown
DeleteLoop(via, st, coll, ids) ==
  IF ids = <<>> THEN [st |-> st, error |-> "", calls |-> <<>>]
  ELSE LET out == tryCloudDelete(st, coll, Head(ids))
           entry == Entry(via, DeleteFn(coll), st, out)
       IN IF out.error # "" THEN [st |-> out.st, error |-> out.error, calls |-> <<entry>>]
          ELSE LET rest == DeleteLoop(via, out.st, coll, Tail(ids))
               IN [rest EXCEPT !.calls = <<entry>> \o @]

\* a delete of all versions that skips the cloud
DeleteAllLocally(st, coll) ==
  [st |-> [st EXCEPT !.storage[coll] = <<>>, !.sets = @ + 1], error |-> "", calls |-> <<>>]

\* the try block of JobAnalysis handleDeleteOptimizedResume and
\* handleDeleteCoverLetter: every version stored for the job is deleted in
\* the cloud, then local storage keeps the versions of other jobs (the model
\* has one job)
DeleteAllVersions(st, coll) ==
  LET targetIds == [k \in 1..Len(st.storage[coll]) |-> st.storage[coll][k].id]
      loop == DeleteLoop("handleDeleteAllVersions", st, coll, targetIds)
  IN IF loop.error # "" THEN loop
     ELSE [loop EXCEPT !.st.storage[coll] = <<>>, !.st.sets = @ + 1]

\* JobAnalysis handleDeleteOptimizedResume and handleDeleteCoverLetter, offered
\* when a version is shown
handleDeleteAllVersions(coll) ==
  /\ JobAnalysisMounted
  /\ coll \in {"optimizedResumes", "coverLetters"}
  /\ storage[coll] # <<>>
  /\ LET done == DeleteAllVersions(Now, coll)
     IN Commit("handleDeleteAllVersions", done.st, done.calls)
  /\ UNCHANGED <<nextId, dashChange>>
  /\ UNCHANGED <<docxVars, genVars, webVars, jobVars, pullVars>>

\* a fresh install of a build with or without the Firebase configuration
SyncInit ==
  /\ DocxIdle /\ GenIdle /\ WebIdle /\ JobsIdle /\ PullIdle
  /\ fbEnabled \in BOOLEAN
  /\ currentUser = NoUser
  /\ accounts = [u \in Uids |-> "none"]
  /\ storage = EmptyStorage
  /\ firestore = [u \in Uids |-> {}]
  /\ nextId = [c \in CollSet |-> 0]
  /\ calls = <<>>
  /\ handlerRuns = 0
  /\ dashChange = NoChange

NextSync ==
  \/ UploadResume
  \/ PopupJobPersist
  \/ PopupStartupPull
  \/ JobAnalysisMount
  \/ markApplied
  \/ \E coll \in {"optimizedResumes", "coverLetters"}, duplicate \in BOOLEAN :
       saveGeneratedContent(coll, duplicate)
  \/ handleSyncNow
  \/ handlePushLocal
  \/ \E i \in 1..MaxPerColl : handleDeleteDraftApplication(i)
  \/ \E i \in 1..MaxPerColl, s \in SelectStatuses : handleStatusChange(i, s)
  \/ \E coll \in {"optimizedResumes", "coverLetters"}, i \in 1..MaxPerColl :
       handleDeleteGenerated(coll, i)
  \/ \E coll \in {"optimizedResumes", "coverLetters"} : handleDeleteAllVersions(coll)
  \/ \E u \in Uids : doCloudSignIn(u)
  \/ \E u \in Uids : doCloudSignUp(u)
  \/ \E u \in Uids : doCloudContinueAsGuest(u)
  \/ doCloudUpgradeGuestToAccount
  \/ doCloudSignOut

SpecSync == SyncInit /\ [][NextSync]_vars

(***************************************************************************)
(* The functions of firebase/sync.ts called directly, from any local       *)
(* storage and auth state: a build without the Firebase configuration has  *)
(* no auth instance and so no user.                                        *)
(***************************************************************************)
\* the contents of one collection of local storage
StoredLists(coll) ==
  {<<>>} \cup {<<Record(1, v, NoUser)>> :
                 v \in IF coll = "applications" THEN {"draft", "applied"} ELSE {"data"}}

SyncApiInit ==
  /\ DocxIdle /\ GenIdle /\ WebIdle /\ JobsIdle /\ PullIdle
  /\ fbEnabled \in BOOLEAN
  /\ currentUser \in IF fbEnabled THEN {NoUser, "A"} ELSE {NoUser}
  /\ accounts = [u \in Uids |-> IF u = currentUser THEN "email" ELSE "none"]
  /\ \E r \in StoredLists("resumes"), o \in StoredLists("optimizedResumes"),
        c \in StoredLists("coverLetters"), a \in StoredLists("applications"),
        j \in StoredLists("jobs") :
       storage = [resumes |-> r, optimizedResumes |-> o, coverLetters |-> c,
                  applications |-> a, jobs |-> j, cloudSync |-> NoCloudSync]
  /\ firestore = [u \in Uids |-> {}]
  /\ nextId = [c \in CollSet |-> Len(storage[c])]
  /\ calls = <<>>
  /\ handlerRuns = 0
  /\ dashChange = NoChange

\* a call of the tryCloudSync* function of coll for a stored record
CallSync(coll, i) ==
  /\ i \in 1..Len(storage[coll])
  /\ LET out == tryCloudSync(Now, coll, storage[coll][i])
     IN Commit("api", out.st, <<Entry("api", SyncFn(coll), Now, out)>>)
  /\ UNCHANGED <<nextId, dashChange>>
  /\ UNCHANGED <<docxVars, genVars, webVars, jobVars, pullVars>>

\* a call of the tryCloudDelete* function of coll for a stored record
CallDelete(coll, i) ==
  /\ i \in 1..Len(storage[coll])
  /\ LET out == tryCloudDelete(Now, coll, storage[coll][i].id)
     IN Commit("api", out.st, <<Entry("api", DeleteFn(coll), Now, out)>>)
  /\ UNCHANGED <<nextId, dashChange>>
  /\ UNCHANGED <<docxVars, genVars, webVars, jobVars, pullVars>>

\* a call of tryCloudPullAllToLocal
CallPull ==
  /\ LET out == tryCloudPullAllToLocal(Now)
     IN Commit("api", out.st, <<Entry("api", "tryCloudPullAllToLocal", Now, out)>>)
  /\ UNCHANGED <<nextId, dashChange>>
  /\ UNCHANGED <<docxVars, genVars, webVars, jobVars, pullVars>>

\* a call of tryCloudPushAllFromLocal
CallPush ==
  /\ LET out == tryCloudPushAllFromLocal(Now)
     IN Commit("api", out.st, <<Entry("api", "tryCloudPushAllFromLocal", Now, out)>>)
  /\ UNCHANGED <<nextId, dashChange>>
  /\ UNCHANGED <<docxVars, genVars, webVars, jobVars, pullVars>>

NextSyncApi ==
  \/ \E coll \in CollSet, i \in 1..MaxPerColl : CallSync(coll, i)
  \/ \E coll \in {"optimizedResumes", "coverLetters", "applications"}, i \in 1..MaxPerColl :
       CallDelete(coll, i)
  \/ CallPull
  \/ CallPush

SpecSyncApi == SyncApiInit /\ [][NextSyncApi]_vars

(***************************************************************************)
(* Claims on cloud sync.                                                   *)
(***************************************************************************)
\* C4: account separation.  A record created in local storage while account
\* A was signed in is never a document under users/<uidB> of another
\* account B.
C4_AccountSeparation ==
  \A u \in Uids : \A d \in firestore[u] : d.owner \in Uids => d.owner = u

\* C5: data stays local unless cloud sync is enabled.  When
\* isFirebaseEnabled() is false every call of a tryCloudSync*, tryCloudDelete*,
\* tryCloudPullAllToLocal or tryCloudPushAllFromLocal returns without an
\* error, without a Firestore read or write and without a write to local
\* storage; Firestore and local storage are as they were at the start.
C5_DisabledStaysLocal ==
  ~fbEnabled =>
    /\ \A i \in 1..Len(calls) :
         /\ calls[i].error = ""
         /\ calls[i].reads = 0
         /\ calls[i].writes = 0
         /\ ~calls[i].touched
    /\ storage.cloudSync = NoCloudSync
    /\ firestore = [u \in Uids |-> {}]

C5_Witness ==
  /\ ~fbEnabled
  /\ calls # <<>>
  /\ calls[1].fn = "tryCloudPushAllFromLocal"
  /\ storage.resumes # <<>>
  /\ storage.applications # <<>>

\* the sync functions the sign-in requirement is claimed for
SignInFns ==
  {SyncFn(c) : c \in CollSet} \cup {"tryCloudPullAllToLocal", "tryCloudPushAllFromLocal"}

\* what C6 asks of one step
C6_Step ==
  /\ \A i \in 1..Len(calls') :
       /\ ~calls'[i].signedIn
       /\ calls'[i].via = "popupStartup" => calls'[i].user # NoUser
       /\ (fbEnabled /\ calls'[i].user = NoUser /\ calls'[i].fn \in SignInFns) =>
            /\ calls'[i].error = SignInRequired
            /\ calls'[i].reads = 0
            /\ calls'[i].writes = 0
  /\ (PopupStartupPull \/ PopupJobPersist) =>
       (currentUser' = currentUser /\ accounts' = accounts)
  /\ (fbEnabled /\ currentUser = NoUser /\ currentUser' = NoUser) => firestore' = firestore

C7_StatusSurvivesPull ==
  (/\ dashChange # NoChange
   /\ calls # <<>>
   /\ calls[1].fn = "tryCloudPullAllToLocal"
   /\ calls[1].error = "") =>
    \A i \in 1..Len(storage.applications) :
      storage.applications[i].id = dashChange.id =>
        storage.applications[i].val = dashChange.status

(***************************************************************************)
(* The editor of the web app (web/App): a user is signed in and a resume   *)
(* is selected.  A text is the list of its characters.  The timeout        *)
(* callback of queueSave, from setSaving(true) to setSaving(false), runs   *)
(* as one step.                                                            *)
(***************************************************************************)
\* characters in the name and in the text of the resume
MaxDraft == 2

Chars == {"a"}

Drafts == SeqsUpTo(Chars, MaxDraft)

\* the editor after the resume was selected: the drafts are its name and text
WebInit ==
  /\ DocxIdle /\ GenIdle /\ SyncIdle /\ JobsIdle /\ PullIdle
  /\ webCloud \in [name : Drafts \ {<<>>}, parsedText : Drafts]
  /\ webSelected = webCloud
  /\ draftName = webSelected.name
  /\ draftText = webSelected.parsedText
  /\ saveTimer = NoSave
  /\ saveNote = ""

\* queueSave() of the render that shows name and text: a pending timeout is
\* cleared and a new one set, whose callback writes the draftName and
\* draftText of that render
queueSave(name, text) == [pending |-> TRUE, name |-> name, text |-> text]

\* onChange of the name input: setDraftName(e.target.value); queueSave()
onChangeName(value) ==
  /\ value \in Drafts \ {draftName}
  /\ draftName' = value
  /\ saveTimer' = queueSave(draftName, draftText)
  /\ UNCHANGED <<webCloud, webSelected, draftText, saveNote>>
  /\ UNCHANGED <<docxVars, genVars, syncVars, jobVars, pullVars>>

\* onChange of the textarea: setDraftText(e.target.value); queueSave()
onChangeText(value) ==
  /\ value \in Drafts \ {draftText}
  /\ draftText' = value
  /\ saveTimer' = queueSave(draftName, draftText)
  /\ UNCHANGED <<webCloud, webSelected, draftName, saveNote>>
  /\ UNCHANGED <<docxVars, genVars, syncVars, jobVars, pullVars>>

\* 650 ms without a further edit: the callback writes the document
SaveTimerFires ==
  /\ saveTimer.pending
  /\ webCloud' = [name |-> saveTimer.name, parsedText |-> saveTimer.text]
  /\ saveNote' = "Saved"
  /\ saveTimer' = [saveTimer EXCEPT !.pending = FALSE]
  /\ UNCHANGED <<webSelected, draftName, draftText>>
  /\ UNCHANGED <<docxVars, genVars, syncVars, jobVars, pullVars>>

\* the callback's setDoc is rejected
SaveFails ==
  /\ saveTimer.pending
  /\ saveNote' = "Save failed"
  /\ saveTimer' = [saveTimer EXCEPT !.pending = FALSE]
  /\ UNCHANGED <<webCloud, webSelected, draftName, draftText>>
  /\ UNCHANGED <<docxVars, genVars, syncVars, jobVars, pullVars>>

\* onSnapshot: resumes, and with it selected, follow the cloud; the drafts
\* are reset only when another resume is selected
Snapshot ==
  /\ webSelected # webCloud
  /\ webSelected' = webCloud
  /\ UNCHANGED <<webCloud, draftName, draftText, saveTimer, saveNote>>
  /\ UNCHANGED <<docxVars, genVars, syncVars, jobVars, pullVars>>

NextWeb ==
  \/ \E value \in Drafts : onChangeName(value)
  \/ \E value \in Drafts : onChangeText(value)
  \/ SaveTimerFires
  \/ SaveFails
  \/ Snapshot

SpecWeb == WebInit /\ [][NextWeb]_vars

\* C9: after an edit of the name or text and a debounce period without a
\* further edit, the document written by queueSave carries the name and
\* parsedText the editor shows, the last keystroke included.
C9_SavedIsShown ==
  (saveNote = "Saved" /\ ~saveTimer.pending) =>
    (webCloud.name = draftName /\ webCloud.parsedText = draftText)

(***************************************************************************)
(* The jobs of local storage, one per URL.  generateId() returns a fresh   *)
(* id at every call; the content script calls it at every extraction.      *)
(***************************************************************************)
\* ids generateId() hands out in one run
MaxIds == 5

Urls == {"u1", "u2"}

JobsInit ==
  /\ DocxIdle /\ GenIdle /\ SyncIdle /\ WebIdle /\ PullIdle
  /\ jobs = <<>>
  /\ idsGenerated = 0
  /\ currentJob = NoJob

\* extractJobPosting() of the content script on the page of url
ExtractedJob(url) == [id |-> idsGenerated + 1, url |-> url]

\* jobs.findIndex(j => j.url === url); 0 when there is none
IndexOfUrl(js, url) ==
  IF \E i \in 1..Len(js) : js[i].url = url
    THEN CHOOSE i \in 1..Len(js) : js[i].url = url /\ \A k \in 1..(i - 1) : js[k].url # url
    ELSE 0

\* the save that keeps the stored job of a URL
SaveKeepingExisting(js, job) ==
  IF IndexOfUrl(js, job.url) > 0 THEN js ELSE Append(js, job)

\* handleJobExtraction and StorageManager.saveJob: the job replaces the
\* stored job of its URL
SaveReplacing(js, job) ==
  IF IndexOfUrl(js, job.url) > 0 THEN [js EXCEPT ![IndexOfUrl(js, job.url)] = job]
  ELSE Append(js, job)

\* the popup opens on the page of url: the extracted job is stored unless a
\* job of that URL is stored, which then is the current job
PopupOpen(url) ==
  /\ idsGenerated < MaxIds
  /\ idsGenerated' = idsGenerated + 1
  /\ jobs' = SaveKeepingExisting(jobs, ExtractedJob(url))
  /\ currentJob' = jobs'[IndexOfUrl(jobs', url)]
  /\ UNCHANGED <<docxVars, genVars, syncVars, webVars, pullVars>>

\* background: an EXTRACT_JOB message with the job extracted from the page of url
handleJobExtraction(url) ==
  /\ idsGenerated < MaxIds
  /\ idsGenerated' = idsGenerated + 1
  /\ jobs' = SaveReplacing(jobs, ExtractedJob(url))
  /\ UNCHANGED currentJob
  /\ UNCHANGED <<docxVars, genVars, syncVars, webVars, pullVars>>

\* StorageManager.saveJob(job) for the job extracted from the page of url
saveJob(url) ==
  /\ idsGenerated < MaxIds
  /\ idsGenerated' = idsGenerated + 1
  /\ jobs' = SaveReplacing(jobs, ExtractedJob(url))
  /\ UNCHANGED currentJob
  /\ UNCHANGED <<docxVars, genVars, syncVars, webVars, pullVars>>

\* StorageManager.saveJob(job) for the popup's current job
saveCurrentJob ==
  /\ currentJob # NoJob
  /\ jobs' = SaveReplacing(jobs, currentJob)
  /\ jobs' # jobs
  /\ UNCHANGED <<idsGenerated, currentJob>>
  /\ UNCHANGED <<docxVars, genVars, syncVars, webVars, pullVars>>

NextJobs ==
  \/ \E url \in Urls : PopupOpen(url)
  \/ \E url \in Urls : handleJobExtraction(url)
  \/ \E url \in Urls : saveJob(url)
  \/ saveCurrentJob

SpecJobs == JobsInit /\ [][NextJobs]_vars

\* C10: once a job of URL u is stored, the id of the stored job of URL u
\* never changes under popup opens, EXTRACT_JOB messages and
\* StorageManager.saveJob calls.
C10_JobIdStable ==
  [][\A i \in 1..Len(jobs) : \A k \in 1..Len(jobs') :
       jobs[i].url = jobs'[k].url => jobs[i].id = jobs'[k].id]_vars


\* a collection of st holds no record with this id
Absent(st, coll, id) == \A k \in 1..Len(st[coll]) : st[coll][k].id # id

\* C11: items can be deleted anytime.  Whenever the user confirms the
\* deletion of a draft application, an optimized resume or a cover letter in
\* the Dashboard, the item is gone from local storage afterwards, with sync
\* disabled, enabled and signed in, and enabled and signed out.
C11_DeleteRemoves ==
  [][\A i \in 1..MaxPerColl :
       /\ handleDeleteDraftApplication(i) =>
            Absent(storage', "applications", storage.applications[i].id)
       /\ \A coll \in {"optimizedResumes", "coverLetters"} :
            handleDeleteGenerated(coll, i) => Absent(storage', coll, storage[coll][i].id)]_vars


\* no record of the collection is in local storage or under users/<uid>
NoneStored(st, fs, coll, uid) ==
  /\ st[coll] = <<>>
  /\ uid # NoUser => \A d \in fs[uid] : d.coll # coll

\* what C12 asks of one step, for one collection
C12_Step(coll) ==
  /\ (handleDeleteAllVersions(coll) /\ \A i \in 1..Len(calls') : calls'[i].error = "") =>
       NoneStored(storage', firestore', coll, currentUser)
  /\ \A i \in 1..Len(calls') :
       (/\ calls'[i].fn \in {"tryCloudPullAllToLocal", "tryCloudPushAllFromLocal"}
        /\ NoneStored(storage, firestore, coll, calls'[i].user)) =>
         NoneStored(storage', firestore', coll, calls'[i].user)

MaxResumes == 2
\* applications in one store
MaxApps == 1

ResumeIds == 1..MaxResumes

AppIds == 1..MaxApps

\* sequences of distinct ids from S
RECURSIVE IdLists(_)
IdLists(S) ==
  {<<>>} \cup UNION {{<<i>> \o rest : rest \in IdLists(S \ {i})} : i \in S}

\* ResumeUpload and StorageManager.saveResume leave at most one default resume
LocalResumeLists ==
  UNION {{[k \in 1..Len(ids) |->
             [id |-> ids[k], name |-> "cv", content |-> c[ids[k]], isDefault |-> ids[k] = d]] :
            c \in [ResumeIds -> {"", "file"}], d \in {0} \cup {ids[k] : k \in 1..Len(ids)}} :
         ids \in IdLists(ResumeIds)}

CloudResumeSets ==
  UNION {{{[id |-> i, name |-> n[i], isDefault |-> d[i], chunks |-> c[i]] : i \in S} :
            n \in [ResumeIds -> {"", "cv2"}], d \in [ResumeIds -> BOOLEAN],
            c \in [ResumeIds -> {"", "chunks"}]} :
         S \in SUBSET ResumeIds}

LocalAppLists ==
  {[k \in 1..Len(ids) |-> [id |-> ids[k], status |-> st[ids[k]]]] :
     ids \in IdLists(AppIds), st \in [AppIds -> {"draft", "interviewing"}]}

CloudAppSets ==
  UNION {{{[id |-> i, status |-> st[i]] : i \in S} : st \in [AppIds -> {"", "applied"}]} :
         S \in SUBSET AppIds}

\* arr.findIndex(x => x.id === id), 0 when there is none
FindIndex(arr, id) ==
  IF \E i \in 1..Len(arr) : arr[i].id = id
    THEN CHOOSE i \in 1..Len(arr) : arr[i].id = id /\ \A j \in 1..(i - 1) : arr[j].id # id
    ELSE 0

\* an upsert that keeps the local record of an id it finds
UpsertIfNew(arr, item) ==
  IF FindIndex(arr, item.id) > 0 THEN arr ELSE Append(arr, item)

\* upsertById(arr, item) with an item that carries every field of the record
UpsertItem(arr, item) ==
  IF FindIndex(arr, item.id) > 0 THEN [arr EXCEPT ![FindIndex(arr, item.id)] = item]
  ELSE Append(arr, item)

\* the Resume built from cloud document r: content is the local file
\* content if there is any, else the joined pdfChunks
PulledResume(resumes, r) ==
  LET idx == FindIndex(resumes, r.id)
  IN [id |-> r.id,
      name |-> IF r.name = "" THEN "Resume" ELSE r.name,
      content |-> IF idx > 0 /\ resumes[idx].content # "" THEN resumes[idx].content
                  ELSE r.chunks,
      isDefault |-> r.isDefault]

\* the Application built from cloud document a
PulledApp(a) == [id |-> a.id, status |-> IF a.status = "" THEN "draft" ELSE a.status]

RECURSIVE PullResumeLoop(_, _, _)
\* for (const r of cloudResumes) { ...; upsertById(resumes, resume) }
PullResumeLoop(resumes, docs, id) ==
  IF id > MaxResumes THEN resumes
  ELSE IF \E r \in docs : r.id = id
    THEN PullResumeLoop(UpsertItem(resumes, PulledResume(resumes, CHOOSE r \in docs : r.id = id)),
                        docs, id + 1)
    ELSE PullResumeLoop(resumes, docs, id + 1)

RECURSIVE PullAppLoop(_, _, _)
\* for (const a of cloudApps) { ...; upsertById(applications, app) }
PullAppLoop(apps, docs, id) ==
  IF id > MaxApps THEN apps
  ELSE IF \E a \in docs : a.id = id
    THEN PullAppLoop(UpsertItem(apps, PulledApp(CHOOSE a \in docs : a.id = id)), docs, id + 1)
    ELSE PullAppLoop(apps, docs, id + 1)

\* const cloudDefault = resumes.find(r => r.isDefault);
\* if (cloudDefault) resumes.forEach(r => (r.isDefault = r.id === cloudDefault.id))
EnforceOneDefault(resumes) ==
  IF \E i \in 1..Len(resumes) : resumes[i].isDefault
    THEN LET first == CHOOSE i \in 1..Len(resumes) :
                        resumes[i].isDefault /\ \A j \in 1..(i - 1) : ~resumes[j].isDefault
         IN [i \in 1..Len(resumes) |->
               [resumes[i] EXCEPT !.isDefault = (resumes[i].id = resumes[first].id)]]
    ELSE resumes

PullInit ==
  /\ DocxIdle /\ GenIdle /\ SyncIdle /\ WebIdle /\ JobsIdle
  /\ localResumes \in LocalResumeLists
  /\ cloudResumes \in CloudResumeSets
  /\ localApps \in LocalAppLists
  /\ cloudApps \in CloudAppSets
  /\ beforePull = [resumes |-> <<>>, applications |-> <<>>]
  /\ pullDone = FALSE
  /\ webDefault = 0

\* web app setAsDefault for the selected resume x:
\* setDoc(users/<uid>/resumes/x, {isDefault: true}, {merge: true})
setAsDefault(x) ==
  /\ \E r \in cloudResumes : r.id = x
  /\ cloudResumes' = {IF r.id = x THEN [r EXCEPT !.isDefault = TRUE] ELSE r : r \in cloudResumes}
  /\ webDefault' = x
  /\ pullDone' = FALSE
  /\ UNCHANGED <<localResumes, localApps, cloudApps, beforePull>>
  /\ UNCHANGED <<docxVars, genVars, syncVars, webVars, jobVars>>

\* a tryCloudPullAllToLocal that succeeds
PullAllToLocal ==
  /\ beforePull' = [resumes |-> localResumes, applications |-> localApps]
  /\ localResumes' = EnforceOneDefault(PullResumeLoop(localResumes, cloudResumes, 1))
  /\ localApps' = PullAppLoop(localApps, cloudApps, 1)
  /\ pullDone' = TRUE
  /\ UNCHANGED <<cloudResumes, cloudApps, webDefault>>
  /\ UNCHANGED <<docxVars, genVars, syncVars, webVars, jobVars>>

NextPull ==
  \/ \E x \in ResumeIds : setAsDefault(x)
  \/ PullAllToLocal

SpecPull == PullInit /\ [][NextPull]_vars

\* C13: after setAsDefault succeeded for resume X in the web app and the
\* extension completed a pull, X is the single resume marked isDefault in
\* local storage.
C13_WebDefaultWins ==
  (pullDone /\ webDefault # 0) =>
    \A i \in 1..Len(localResumes) : localResumes[i].isDefault <=> localResumes[i].id = webDefault


\* the cloud document with this id
CloudDoc(docs, id) == CHOOSE d \in docs : d.id = id

InCloud(docs, id) == \E d \in docs : d.id = id

\* the ids of the pulled list: every id of the list before the pull is still
\* at its place, and the ids only the cloud has follow, each once
IdsKeptAndAppended(before, after, docs) ==
  /\ Len(after) >= Len(before)
  /\ \A i \in 1..Len(before) : after[i].id = before[i].id
  /\ \A i, j \in 1..Len(after) : after[i].id = after[j].id => i = j
  /\ {after[i].id : i \in (Len(before) + 1)..Len(after)}
       = {d.id : d \in docs} \ {before[i].id : i \in 1..Len(before)}

\* name and content of the pulled resumes: the cloud's name; the local file
\* content if there was any, else the cloud's; a resume only local storage
\* has keeps both
ResumeFieldsPulled(before, after, docs) ==
  \A i \in 1..Len(after) :
    LET old == FindIndex(before, after[i].id)
    IN IF InCloud(docs, after[i].id)
         THEN LET d == CloudDoc(docs, after[i].id)
              IN /\ after[i].name = (IF d.name = "" THEN "Resume" ELSE d.name)
                 /\ after[i].content = (IF old > 0 /\ before[old].content # ""
                                          THEN before[old].content ELSE d.chunks)
         ELSE after[i].name = before[old].name /\ after[i].content = before[old].content

\* isDefault of the resume at place i once the cloud's values are in: the
\* cloud's, or the local one for a resume only local storage has
MergedDefault(before, after, docs, i) ==
  IF InCloud(docs, after[i].id) THEN CloudDoc(docs, after[i].id).isDefault
  ELSE before[FindIndex(before, after[i].id)].isDefault

\* the pulled applications: the cloud's status, or the local record untouched
AppsPulled(before, after, docs) ==
  /\ IdsKeptAndAppended(before, after, docs)
  /\ \A i \in 1..Len(after) :
       IF InCloud(docs, after[i].id)
         THEN after[i].status = (IF CloudDoc(docs, after[i].id).status = "" THEN "draft"
                                 ELSE CloudDoc(docs, after[i].id).status)
         ELSE after[i] = before[FindIndex(before, after[i].id)]

=============================================================================
